---- MODULE Spec2Model ----
(***************************************************************************)
(* Model of verification/verify_project_modal.py: one routine,             *)
(* verify_project_modal, that drives a headless browser through a fixed    *)
(* sequence of steps.  Every statement of the routine is one action; the   *)
(* outcome of each library call (success, or the exception it raises) is   *)
(* decided by the environment record env, fixed at Init, so that           *)
(* successive runs meet the same application state.                        *)
(*                                                                         *)
(* print and browser.close() are modelled as calls that return normally.   *)
(***************************************************************************)
EXTENDS Naturals, Sequences, FiniteSets, TLC

\* Number of successive invocations of the routine that are explored.
MaxRuns == 2

VARIABLES
    env,        \* what the outside world answers to each library call
    run,        \* index of the current invocation
    pc,         \* position inside verify_project_modal
    session,    \* the sync_playwright() context: "none", "active", "stopped"
    browser,    \* local `browser`: "none" (unbound), "open", "closed"
    page,       \* local `page`: "none" (unbound), "open"
    closeCalls, \* calls of browser.close() made by the current invocation
    exc,        \* exception in flight: "none" or the step that raised it
    console,    \* lines printed by the current invocation
    trace,      \* library calls attempted by the current invocation, in order
    outcome,    \* "running", "returned" or "raised" (exception left the routine)
    fs,         \* files on disk: records [path, content]
    history     \* console, trace, outcome of the finished earlier invocations

vars == <<env, run, pc, session, browser, page, closeCalls, exc, console,
          trace, outcome, fs, history>>

\* Answers of Locator.is_visible(): True, False (no such element), or an exception.
ElemStates == {"visible", "missing", "broken"}

Env == [launch : BOOLEAN, new_page : BOOLEAN, goto : BOOLEAN, button : BOOLEAN,
        modal : BOOLEAN, writable : BOOLEAN, label : ElemStates,
        star : ElemStates]

ScreenshotPath == "verification/project_modal_a11y.png"

\* f"Error: {e}": the fixed prefix followed by the exception's message.
ErrorLine(e) == <<"Error: ", e>>

\* The message of the exception raised by a step names that step.
Msg(step) == step

Raise(step) == /\ exc' = Msg(step)
               /\ pc' = "except"

\* Writing a file replaces whatever was stored under the same path.
WriteFile(files, path, content) ==
    {f \in files : f.path # path} \cup {[path |-> path, content |-> content]}

Init ==
    /\ env \in Env
    /\ run = 1
    /\ pc = "enter"
    /\ session = "none"
    /\ browser = "none"
    /\ page = "none"
    /\ closeCalls = 0
    /\ exc = "none"
    /\ console = <<>>
    /\ trace = <<>>
    /\ outcome = "running"
    /\ fs \in {{}, {[path |-> ScreenshotPath, content |-> 0]}}
    /\ history = <<>>

\* with sync_playwright() as p:
Enter ==
    /\ pc = "enter"
    /\ session' = "active"
    /\ pc' = "launch"
    /\ UNCHANGED <<env, run, browser, page, closeCalls, exc, console, trace,
                   outcome, fs, history>>

\* browser = p.chromium.launch(headless=True)   (outside the try)
Launch ==
    /\ pc = "launch"
    /\ trace' = Append(trace, "launch")
    /\ IF env.launch
         THEN /\ browser' = "open"
              /\ pc' = "new_page"
              /\ exc' = exc
         ELSE /\ browser' = browser
              /\ pc' = "exit"
              /\ exc' = Msg("launch")
    /\ UNCHANGED <<env, run, session, page, closeCalls, console, outcome, fs,
                   history>>

\* page = browser.new_page()   (outside the try)
NewPage ==
    /\ pc = "new_page"
    /\ trace' = Append(trace, "new_page")
    /\ IF env.new_page
         THEN /\ page' = "open"
              /\ pc' = "goto"
              /\ exc' = exc
         ELSE /\ page' = page
              /\ pc' = "exit"
              /\ exc' = Msg("new_page")
    /\ UNCHANGED <<env, run, session, browser, closeCalls, console, outcome,
                   fs, history>>

\* Goto with the failure of the navigation ignored.
GotoIgnoreFailure ==
    /\ pc = "goto"
    /\ trace' = Append(trace, "goto")
    /\ pc' = "click"
    /\ UNCHANGED <<env, run, session, browser, page, closeCalls, exc, console,
                   outcome, fs, history>>

\* page.goto("http://localhost:3000", timeout=10000)
Goto ==
    /\ pc = "goto"
    /\ trace' = Append(trace, "goto")
    /\ IF env.goto
         THEN /\ pc' = "click"
              /\ exc' = exc
         ELSE Raise("goto")
    /\ UNCHANGED <<env, run, session, browser, page, closeCalls, console,
                   outcome, fs, history>>

\* page.get_by_role("button", name="New Novel").click()
Click ==
    /\ pc = "click"
    /\ trace' = Append(trace, "click")
    /\ IF env.button
         THEN /\ pc' = "wait"
              /\ exc' = exc
         ELSE Raise("click")
    /\ UNCHANGED <<env, run, session, browser, page, closeCalls, console,
                   outcome, fs, history>>

\* WaitForSelector that goes on to the screenshot whether or not the modal
\* text appeared.
WaitNoRaise ==
    /\ pc = "wait"
    /\ trace' = Append(trace, "wait_for_selector")
    /\ pc' = "screenshot"
    /\ UNCHANGED <<env, run, session, browser, page, closeCalls, exc, console,
                   outcome, fs, history>>

\* page.wait_for_selector("text=Start a New Novel")
WaitForSelector ==
    /\ pc = "wait"
    /\ trace' = Append(trace, "wait_for_selector")
    /\ IF env.modal
         THEN /\ pc' = "screenshot"
              /\ exc' = exc
         ELSE Raise("wait_for_selector")
    /\ UNCHANGED <<env, run, session, browser, page, closeCalls, console,
                   outcome, fs, history>>

\* Screenshot writing to a path that differs from one invocation to the next.
ScreenshotPerRun ==
    /\ pc = "screenshot"
    /\ trace' = Append(trace, "screenshot")
    /\ IF env.writable
         THEN /\ fs' = WriteFile(fs, IF run = 1 THEN ScreenshotPath
                                     ELSE "verification/project_modal_a11y_next.png",
                                 run)
              /\ pc' = "print_shot"
              /\ exc' = exc
         ELSE /\ fs' = fs
              /\ Raise("screenshot")
    /\ UNCHANGED <<env, run, session, browser, page, closeCalls, console,
                   outcome, history>>

\* Screenshot whose failed write is swallowed.
ScreenshotSwallow ==
    /\ pc = "screenshot"
    /\ trace' = Append(trace, "screenshot")
    /\ fs' = IF env.writable THEN WriteFile(fs, ScreenshotPath, run) ELSE fs
    /\ pc' = "print_shot"
    /\ UNCHANGED <<env, run, session, browser, page, closeCalls, exc, console,
                   outcome, history>>

\* page.screenshot(path="verification/project_modal_a11y.png")
Screenshot ==
    /\ pc = "screenshot"
    /\ trace' = Append(trace, "screenshot")
    /\ IF env.writable
         THEN /\ fs' = WriteFile(fs, ScreenshotPath, run)
              /\ pc' = "print_shot"
              /\ exc' = exc
         ELSE /\ fs' = fs
              /\ Raise("screenshot")
    /\ UNCHANGED <<env, run, session, browser, page, closeCalls, console,
                   outcome, history>>

\* print("Screenshot captured: verification/project_modal_a11y.png")
PrintShot ==
    /\ pc = "print_shot"
    /\ console' = Append(console,
                    <<"Screenshot captured: ", "verification/project_modal_a11y.png">>)
    /\ pc' = "label"
    /\ UNCHANGED <<env, run, session, browser, page, closeCalls, exc, trace,
                   outcome, fs, history>>

\* LabelCheck in which a missing label raises instead of answering False.
LabelCheckStrict ==
    /\ pc = "label"
    /\ trace' = Append(trace, "label")
    /\ IF env.label # "visible"
         THEN /\ Raise("label")
              /\ console' = console
         ELSE /\ console' = Append(console, <<"Label for new-book-title found.">>)
              /\ pc' = "star"
              /\ exc' = exc
    /\ UNCHANGED <<env, run, session, browser, page, closeCalls, outcome, fs,
                   history>>

\* LabelCheck with its own handler: the error is printed and the routine
\* carries on with the required-marker check.
LabelCheckResume ==
    /\ pc = "label"
    /\ trace' = Append(trace, "label")
    /\ console' = IF env.label = "broken"
                    THEN Append(console, ErrorLine(Msg("label")))
                    ELSE IF env.label = "visible"
                           THEN Append(console, <<"Label for new-book-title found.">>)
                           ELSE console
    /\ pc' = "star"
    /\ UNCHANGED <<env, run, session, browser, page, closeCalls, exc, outcome,
                   fs, history>>

\* label = page.locator("label[for='new-book-title']")
\* if label.is_visible(): print("Label for new-book-title found.")
LabelCheck ==
    /\ pc = "label"
    /\ trace' = Append(trace, "label")
    /\ IF env.label = "broken"
         THEN /\ Raise("label")
              /\ console' = console
         ELSE /\ console' = IF env.label = "visible"
                              THEN Append(console, <<"Label for new-book-title found.">>)
                              ELSE console
              /\ pc' = "star"
              /\ exc' = exc
    /\ UNCHANGED <<env, run, session, browser, page, closeCalls, outcome, fs,
                   history>>

\* StarCheck nested inside the label's if: the marker is reported only when
\* the label was visible.
StarCheckNested ==
    /\ pc = "star"
    /\ trace' = Append(trace, "required_star")
    /\ IF env.star = "broken" /\ env.label = "visible"
         THEN /\ Raise("required_star")
              /\ console' = console
         ELSE /\ console' = IF env.star = "visible" /\ env.label = "visible"
                              THEN Append(console, <<"Required star visible.">>)
                              ELSE console
              /\ pc' = "finally"
              /\ exc' = exc
    /\ UNCHANGED <<env, run, session, browser, page, closeCalls, outcome, fs,
                   history>>

\* required_star = label.locator(".text-red-400")
\* if required_star.is_visible(): print("Required star visible.")
StarCheck ==
    /\ pc = "star"
    /\ trace' = Append(trace, "required_star")
    /\ IF env.star = "broken"
         THEN /\ Raise("required_star")
              /\ console' = console
         ELSE /\ console' = IF env.star = "visible"
                              THEN Append(console, <<"Required star visible.">>)
                              ELSE console
              /\ pc' = "finally"
              /\ exc' = exc
    /\ UNCHANGED <<env, run, session, browser, page, closeCalls, outcome, fs,
                   history>>

\* Except that lets the exception go on after the cleanup.
ExceptReraise ==
    /\ pc = "except"
    /\ pc' = "finally"
    /\ UNCHANGED <<env, run, session, browser, page, closeCalls, exc, console,
                   trace, outcome, fs, history>>

\* except Exception as e: print(f"Error: {e}")
Except ==
    /\ pc = "except"
    /\ console' = Append(console, ErrorLine(exc))
    /\ exc' = "none"
    /\ pc' = "finally"
    /\ UNCHANGED <<env, run, session, browser, page, closeCalls, trace,
                   outcome, fs, history>>

\* finally: browser.close()
Finally ==
    /\ pc = "finally"
    /\ trace' = Append(trace, "close")
    /\ closeCalls' = closeCalls + 1
    /\ browser' = "closed"
    /\ pc' = "exit"
    /\ UNCHANGED <<env, run, session, page, exc, console, outcome, fs,
                   history>>

\* Leaving the with block: the session is torn down and the routine either
\* returns or lets the exception in flight out to its caller.
SessionExit ==
    /\ pc = "exit"
    /\ session' = "stopped"
    /\ outcome' = IF exc = "none" THEN "returned" ELSE "raised"
    /\ pc' = "done"
    /\ UNCHANGED <<env, run, browser, page, closeCalls, exc, console, trace,
                   fs, history>>

\* The script is invoked again: a new call of verify_project_modal starts
\* with fresh locals; only the disk and the outside world persist.
NextRun ==
    /\ pc = "done"
    /\ run < MaxRuns
    /\ history' = Append(history, [console |-> console, trace |-> trace,
                                   outcome |-> outcome])
    /\ run' = run + 1
    /\ pc' = "enter"
    /\ session' = "none"
    /\ browser' = "none"
    /\ page' = "none"
    /\ closeCalls' = 0
    /\ exc' = "none"
    /\ console' = <<>>
    /\ trace' = <<>>
    /\ outcome' = "running"
    /\ UNCHANGED <<env, fs>>

Step ==
    \/ Enter
    \/ Launch
    \/ NewPage
    \/ Goto
    \/ Click
    \/ WaitForSelector
    \/ Screenshot
    \/ PrintShot
    \/ LabelCheck
    \/ StarCheck
    \/ Except
    \/ Finally
    \/ SessionExit

Next == Step \/ NextRun

Spec == Init /\ [][Next]_vars

\* The routine is a single thread that always executes its next statement;
\* its two blocking waits end in success or in a timeout error.
FairSpec == Spec /\ WF_vars(Step)

TypeOK ==
    /\ env \in Env
    /\ run \in 1..MaxRuns
    /\ session \in {"none", "active", "stopped"}
    /\ browser \in {"none", "open", "closed"}
    /\ page \in {"none", "open"}
    /\ closeCalls \in Nat
    /\ outcome \in {"running", "returned", "raised"}

(***************************************************************************)
(* Vocabulary of the properties.                                           *)
(***************************************************************************)
Done == pc = "done"

Has(seq, x) == \E i \in DOMAIN seq : seq[i] = x

IsError(line) == line[1] = "Error: "

Errors(lines) == {i \in DOMAIN lines : IsError(lines[i])}

ShotLine == <<"Screenshot captured: ", ScreenshotPath>>

LabelLine == <<"Label for new-book-title found.">>

StarLine == <<"Required star visible.">>

\* The browser-driving steps in the order the routine lists them.
Order == <<"launch", "new_page", "goto", "click", "wait_for_selector",
           "screenshot", "label", "required_star">>

GuardedSteps == {"goto", "click", "wait_for_selector", "screenshot", "label",
                 "required_star"}

AllSteps == GuardedSteps \cup {"launch", "new_page"}

\* Whether the outside world lets a step succeed.
StepOk(s) ==
    CASE s = "launch" -> env.launch
      [] s = "new_page" -> env.new_page
      [] s = "goto" -> env.goto
      [] s = "click" -> env.button
      [] s = "wait_for_selector" -> env.modal
      [] s = "screenshot" -> env.writable
      [] s = "label" -> env.label # "broken"
      [] s = "required_star" -> env.star # "broken"

Attempted(s) == Has(trace, s)

Failed(s) == Attempted(s) /\ ~StepOk(s)

\* The current invocation has written the screenshot file.
Wrote == [path |-> ScreenshotPath, content |-> run] \in fs

WroteAny == \E f \in fs : f.content = run

Last(seq) == seq[Len(seq)]

\* Times x occurs in seq.
Occurrences(seq, x) == Cardinality({i \in DOMAIN seq : seq[i] = x})

(***************************************************************************)
(* C1 (as stated): in every finished run that launched a browser, the      *)
(* browser was closed exactly once and the close was the last step of the  *)
(* routine, whichever step succeeded or failed.                            *)
(* Refuted: when browser.new_page() raises, browser.close() is never run.  *)
(***************************************************************************)
C1_ClosedExactlyOnceLast ==
    (Done /\ browser # "none") =>
        /\ closeCalls = 1
        /\ browser = "closed"
        /\ Last(trace) = "close"

C3_FourModesIdentical ==
    Done =>
        /\ \A s \in {"goto", "click", "wait_for_selector"} :
              Failed(s) => /\ Has(console, ErrorLine(Msg(s)))
                           /\ outcome = "returned"
        /\ (Attempted("label") /\ env.label = "missing") =>
              /\ Has(console, ErrorLine(Msg("label")))
              /\ outcome = "returned"

(***************************************************************************)
(* C3 (amended): navigation timeout, missing button and missing modal text *)
(* are treated identically: the failure is caught, an "Error: " line for   *)
(* it is the only line logged, the browser is closed and the routine exits *)
(* normally.  A missing label raises nothing: no "Error: " line is logged  *)
(* for it, its confirmation line is omitted, the required-marker check is  *)
(* still made and the routine exits normally.                              *)
(***************************************************************************)
C3_ThreeModesIdentical ==
    Done =>
        /\ \A s \in {"goto", "click", "wait_for_selector"} :
              Failed(s) => /\ console = <<ErrorLine(Msg(s))>>
                           /\ outcome = "returned"
                           /\ closeCalls = 1
        /\ (Attempted("label") /\ env.label = "missing") =>
              /\ ~Has(console, ErrorLine(Msg("label")))
              /\ ~Has(console, LabelLine)
              /\ Attempted("required_star")
              /\ outcome = "returned"
              /\ closeCalls = 1

C3_Witness ==
    /\ Done
    /\ Attempted("label")
    /\ env.label = "missing"
    /\ env.star = "missing"
    /\ console = <<ShotLine>>
    /\ outcome = "returned"

(***************************************************************************)
(* C4: when the navigation fails, the run prints an "Error: " line, never  *)
(* writes the screenshot file, never prints the "Screenshot captured" line *)
(* or a confirmation line, and still closes the browser and terminates.    *)
(***************************************************************************)
C4_NavigationFailure ==
    /\ [](Failed("goto") =>
            /\ ~WroteAny
            /\ ~Attempted("screenshot")
            /\ ~Has(console, ShotLine)
            /\ ~Has(console, LabelLine)
            /\ ~Has(console, StarLine)
            /\ Done => /\ console = <<ErrorLine(Msg("goto"))>>
                       /\ closeCalls = 1
                       /\ browser = "closed"
                       /\ outcome = "returned")
    /\ (Failed("goto") ~> (Done /\ Failed("goto") /\ browser = "closed"))

C4_Witness ==
    /\ Done
    /\ Failed("goto")
    /\ console = <<ErrorLine("goto")>>
    /\ browser = "closed"
    /\ ~WroteAny

(***************************************************************************)
(* C5 (as stated): once the screenshot is written the run prints the       *)
(* "Screenshot captured" line first, then the label line exactly when the  *)
(* label is visible and the star line exactly when the required marker is  *)
(* visible, each decided independently, in that order, with no "Error: "   *)
(* line when neither check raises.                                         *)
(***************************************************************************)
C5_ConfirmationLines ==
    (Done /\ Wrote) =>
        /\ console # <<>>
        /\ console[1] = ShotLine
        /\ Has(console, LabelLine) <=> env.label = "visible"
        /\ Has(console, StarLine) <=> env.star = "visible"
        /\ \A i, j \in DOMAIN console :
              (console[i] = LabelLine /\ console[j] = StarLine) => i < j
        /\ (env.label # "broken" /\ env.star # "broken") => Errors(console) = {}

(***************************************************************************)
(* C5 (amended): as stated, except that the star line is printed exactly   *)
(* when the label check did not raise and the required marker is visible:  *)
(* a label check that raises ends the run before the marker is looked at.  *)
(* Whether the label is visible or missing does not affect the star line.  *)
(***************************************************************************)
C5_ConfirmationLinesUnlessRaised ==
    (Done /\ Wrote) =>
        /\ console # <<>>
        /\ console[1] = ShotLine
        /\ Occurrences(console, ShotLine) = 1
        /\ Has(console, LabelLine) <=> env.label = "visible"
        /\ Has(console, StarLine) <=>
              (env.star = "visible" /\ env.label # "broken")
        /\ Occurrences(console, LabelLine) <= 1
        /\ Occurrences(console, StarLine) <= 1
        /\ \A i, j \in DOMAIN console :
              (console[i] = LabelLine /\ console[j] = StarLine) => i < j
        /\ (env.label # "broken" /\ env.star # "broken") => Errors(console) = {}

C5_Witness ==
    /\ Done
    /\ Wrote
    /\ env.label = "missing"
    /\ env.star = "visible"
    /\ console = <<ShotLine, StarLine>>

(***************************************************************************)
(* C6: the steps run strictly in the listed order with no retries: a step  *)
(* is attempted only if every earlier step succeeded, no step is attempted *)
(* more than once in a run, and the close comes after all of them.         *)
(***************************************************************************)
C6_StrictlySequential ==
    /\ \A i \in DOMAIN trace :
          trace[i] # "close" =>
              /\ i <= Len(Order)
              /\ trace[i] = Order[i]
              /\ \A j \in 1..(i - 1) : StepOk(Order[j])
    /\ \A s \in AllSteps \cup {"close"} : Occurrences(trace, s) <= 1
    /\ \A i \in DOMAIN trace : trace[i] = "close" => i = Len(trace)

C6_Witness ==
    /\ Done
    /\ Failed("wait_for_selector")
    /\ trace = <<"launch", "new_page", "goto", "click", "wait_for_selector",
                 "close">>

(***************************************************************************)
(* C7 (as stated): every run terminates with the browser released, on the  *)
(* success path and on every failure path.                                 *)
(* Refuted on the path where browser.new_page() raises: the run ends, but  *)
(* with the launched browser never closed (see C1).                        *)
(***************************************************************************)
C7_TerminatesWithBrowserReleased ==
    (pc # "done") ~> (Done /\ browser # "open")

(***************************************************************************)
(* C8 (as stated): a second run against the same application state prints  *)
(* the same lines as the first and leaves exactly one screenshot file at   *)
(* the fixed path; nothing of the first run carries over into the second.  *)
(***************************************************************************)
C8_SameOutputOneFile ==
    /\ (Done /\ run >= 2) =>
          /\ \A r \in DOMAIN history : history[r].console = console
          /\ Cardinality(fs) = 1
          /\ \A f \in fs : f.path = ScreenshotPath
    /\ pc = "enter" =>
          /\ browser = "none"
          /\ page = "none"
          /\ session = "none"
          /\ closeCalls = 0
          /\ exc = "none"

(***************************************************************************)
(* C8 (amended): a second run against the same application state prints    *)
(* the same lines as the first and leaves at most one screenshot file at   *)
(* the fixed path: exactly one, written by the latest run, when the        *)
(* screenshot step succeeds, and no file written by either run when the    *)
(* runs fail before the screenshot is written.  Nothing of the first run   *)
(* carries over into the second.                                           *)
(***************************************************************************)
C8_SameOutputAtMostOneFile ==
    /\ (Done /\ run >= 2) =>
          /\ \A r \in DOMAIN history : /\ history[r].console = console
                                       /\ history[r].trace = trace
                                       /\ history[r].outcome = outcome
          /\ Cardinality(fs) <= 1
          /\ \A f \in fs : f.path = ScreenshotPath
          /\ (Attempted("screenshot") /\ StepOk("screenshot")) =>
                fs = {[path |-> ScreenshotPath, content |-> run]}
          /\ ~(Attempted("screenshot") /\ StepOk("screenshot")) =>
                \A f \in fs : f.content = 0
    /\ pc = "enter" =>
          /\ browser = "none"
          /\ page = "none"
          /\ session = "none"
          /\ closeCalls = 0
          /\ exc = "none"

C8_Witness ==
    /\ Done
    /\ run = 2
    /\ history[1].console = <<ShotLine, LabelLine, StarLine>>
    /\ console = <<ShotLine, LabelLine, StarLine>>
    /\ fs = {[path |-> ScreenshotPath, content |-> 2]}

(***************************************************************************)
(* C9: the "Screenshot captured" line is printed only if the screenshot    *)
(* write succeeded; when the write fails the run prints an "Error: " line  *)
(* instead, prints neither the "Screenshot captured" line nor a            *)
(* confirmation line, skips both checks and closes the browser.            *)
(***************************************************************************)
C9_ScreenshotWriteFailure ==
    /\ Has(console, ShotLine) => Wrote
    /\ Failed("screenshot") =>
          /\ ~WroteAny
          /\ ~Has(console, ShotLine)
          /\ ~Has(console, LabelLine)
          /\ ~Has(console, StarLine)
          /\ ~Attempted("label")
          /\ ~Attempted("required_star")
          /\ Done => /\ console = <<ErrorLine(Msg("screenshot"))>>
                     /\ closeCalls = 1
                     /\ browser = "closed"

C9_Witness ==
    /\ Done
    /\ Failed("screenshot")
    /\ console = <<ErrorLine("screenshot")>>
    /\ closeCalls = 1

(***************************************************************************)
(* C10: a run prints at most one "Error: " line, and that line is the last *)
(* console line of the run: once it is printed no further step is          *)
(* attempted and no confirmation line is printed; only the browser close   *)
(* follows.  The line may come after the "Screenshot captured" and label   *)
(* lines when a later check raises.                                        *)
(***************************************************************************)
NotClose(s) == s # "close"

C10_ErrorLineIsLast ==
    /\ Cardinality(Errors(console)) <= 1
    /\ \A i \in Errors(console) : i = Len(console)
    /\ Errors(console) # {} =>
          /\ pc \in {"finally", "exit", "done"}
          /\ SelectSeq(trace, NotClose) # <<>>
          /\ Last(console) = ErrorLine(Msg(Last(SelectSeq(trace, NotClose))))
          /\ Failed(Last(SelectSeq(trace, NotClose)))
          /\ Done => /\ Last(trace) = "close"
                     /\ closeCalls = 1

C10_Witness ==
    /\ Done
    /\ console = <<ShotLine, LabelLine, ErrorLine("required_star")>>
    /\ Last(trace) = "close"
====
